---------------------------- MODULE Spec2Model ----------------------------
(***************************************************************************)
(* A model of serde-resp: the RESP decoder of src/src/de.rs (a cursor over *)
(* a &str, the typed sub-parsers, the array access) and the encoder of     *)
(* src/src/ser.rs, over the value type RESPType of src/src/lib.rs.         *)
(*                                                                         *)
(* A string is the sequence of its UTF-8 bytes.  A byte is written as a    *)
(* TLA+ string: "CR" and "LF" are the bytes 0x0D and 0x0A, "C3" and "A9"   *)
(* are the two bytes of the character U+00E9 (a lead byte and its          *)
(* continuation byte), every other byte is the ASCII character itself.     *)
(* An i64 or i32 is a sign and a magnitude in decimal digits, since the    *)
(* 64-bit range is beyond the integers of the model checker.               *)
(***************************************************************************)
EXTENDS Integers, Sequences, FiniteSets

VARIABLES
    pc,      \* the position of the caller: which call or loop step is next
    value,   \* the RESPType handed to to_string (Unit when there is none)
    text,    \* the &str handed to from_str
    input,   \* Deserializer.input: the part of text not yet consumed
    offset,  \* Deserializer.offset
    stack,   \* the arrays being read: one RESPArrayAccess / visit_seq each
    t,       \* from_str's local t: the top-level value once deserialized
    result,  \* what the decode (or a failed encode) returned
    sink,    \* the Vec<u8> of the latest to_string, as to_writer left it
    again,   \* what to_string returned for the decoded value
    given,   \* the caller's structure handed to to_string (Unit when none)
    target   \* the type T of from_str::<T>: the Deserializer methods that
             \* T::deserialize calls, outermost first

vars ==
    <<pc, value, text, input, offset, stack, t, result, sink, again, given,
      target>>

(***************************************************************************)
(* Bounds of the model.                                                    *)
(***************************************************************************)
MaxText == 2    \* bytes in the text of a string or bulk string to encode
MaxNodes == 4   \* RESPType nodes (scalars and arrays) in a value to encode
MaxSeed == 3    \* nodes in a value whose encoding is corrupted into inputs
MaxTail == 3    \* bytes that follow a crafted header line
MaxItems == 2   \* elements of a caller's sequence or tuple to encode

(***************************************************************************)
(* Bytes and UTF-8.                                                        *)
(***************************************************************************)
CR == "CR"
LF == "LF"
CRLF == <<CR, LF>>
LEAD == "C3"
CONT == "A9"

Range(s) == {s[i] : i \in 1..Len(s)}

Min(S) == CHOOSE m \in S : \A k \in S : m <= k

\* s[from..] of Rust, from counted from 0
DropBytes(s, from) == SubSeq(s, from + 1, Len(s))

\* str::is_char_boundary
is_char_boundary(s, index) ==
    \/ index = 0
    \/ index = Len(s)
    \/ index < Len(s) /\ s[index + 1] # CONT

\* std::str::from_utf8 accepts the bytes
is_utf8(bytes) ==
    \A i \in 1..Len(bytes) :
        /\ bytes[i] = LEAD => (i < Len(bytes) /\ bytes[i + 1] = CONT)
        /\ bytes[i] = CONT => (i > 1 /\ bytes[i - 1] = LEAD)

\* str::find: the byte index of the first match, -1 for Option::None
find(s, pat) ==
    LET hits == {i \in 0..(Len(s) - Len(pat)) :
                    SubSeq(s, i + 1, i + Len(pat)) = pat}
    IN  IF hits = {} THEN -1 ELSE Min(hits)

\* s.chars().next() of a non-empty str: the bytes of its first character
first_char(s) == IF s[1] = LEAD THEN SubSeq(s, 1, 2) ELSE <<s[1]>>

(***************************************************************************)
(* Integers: a sign and the decimal digits of the magnitude, most          *)
(* significant first, without leading zeros (zero is <<0>>, never          *)
(* negative).                                                              *)
(***************************************************************************)
Digits == <<"0", "1", "2", "3", "4", "5", "6", "7", "8", "9">>

is_digit(b) == b \in Range(Digits)
to_digit(b) == CHOOSE d \in 0..9 : Digits[d + 1] = b

Num(neg, mag) == [neg |-> neg, mag |-> mag]
Zero == Num(FALSE, <<0>>)

MagGT(a, b) ==
    \/ Len(a) > Len(b)
    \/ /\ Len(a) = Len(b)
       /\ \E i \in 1..Len(a) :
            /\ a[i] > b[i]
            /\ \A j \in 1..(i - 1) : a[j] = b[j]

I64_MAX == <<9, 2, 2, 3, 3, 7, 2, 0, 3, 6, 8, 5, 4, 7, 7, 5, 8, 0, 7>>
I64_MIN == <<9, 2, 2, 3, 3, 7, 2, 0, 3, 6, 8, 5, 4, 7, 7, 5, 8, 0, 8>>
I32_MAX == <<2, 1, 4, 7, 4, 8, 3, 6, 4, 7>>
I32_MIN == <<2, 1, 4, 7, 4, 8, 3, 6, 4, 8>>

\* checked_mul(10) followed by checked_add / checked_sub of one digit
MulAdd(mag, d) == IF mag = <<0>> THEN <<d>> ELSE Append(mag, d)

RECURSIVE Accumulate(_, _, _, _)
Accumulate(digits, mag, neg, limit) ==
    IF digits = <<>>
    THEN [ok |-> TRUE, num |-> Num(neg /\ mag # <<0>>, mag), detail |-> ""]
    ELSE IF ~is_digit(Head(digits))
    THEN [ok |-> FALSE, num |-> Zero, detail |-> "InvalidDigit"]
    ELSE LET m == MulAdd(mag, to_digit(Head(digits)))
         IN  IF MagGT(m, limit)
             THEN [ok |-> FALSE, num |-> Zero,
                   detail |-> IF neg THEN "NegOverflow" ELSE "PosOverflow"]
             ELSE Accumulate(Tail(digits), m, neg, limit)

\* <iN as FromStr>::from_str, radix 10, for the type with the given limits
from_str_radix(src, max, min) ==
    IF src = <<>>
    THEN [ok |-> FALSE, num |-> Zero, detail |-> "Empty"]
    ELSE IF src \in {<<"+">>, <<"-">>}
    THEN [ok |-> FALSE, num |-> Zero, detail |-> "InvalidDigit"]
    ELSE IF Head(src) = "+" THEN Accumulate(Tail(src), <<0>>, FALSE, max)
    ELSE IF Head(src) = "-" THEN Accumulate(Tail(src), <<0>>, TRUE, min)
    ELSE Accumulate(src, <<0>>, FALSE, max)

\* a parse with one limit for both signs
parse_i64_wide(src) == from_str_radix(src, I64_MIN, I64_MIN)

parse_i64(src) == from_str_radix(src, I64_MAX, I64_MIN)
parse_i32(src) == from_str_radix(src, I32_MAX, I32_MIN)

\* the value of an i32 as an integer of the model
RECURSIVE MagInt(_, _, _)
MagInt(mag, acc, neg) ==
    IF mag = <<>> THEN acc
    ELSE MagInt(Tail(mag), IF neg THEN acc * 10 - Head(mag)
                                  ELSE acc * 10 + Head(mag), neg)

ToInt(num) == MagInt(num.mag, 0, num.neg)

\* the decimal digits of a usize that fits the model's integers
RECURSIVE NatMag(_)
NatMag(n) == IF n < 10 THEN <<n>> ELSE Append(NatMag(n \div 10), n % 10)

\* itoa::Buffer::format and the {} of format!: the decimal text
format_mag(mag) == [i \in 1..Len(mag) |-> Digits[mag[i] + 1]]
format_i64(num) == (IF num.neg THEN <<"-">> ELSE <<>>) \o format_mag(num.mag)
format_usize(n) == format_mag(NatMag(n))

MAX_BULK_STRING_SIZE == 512 * 1024 * 1024

(***************************************************************************)
(* Errors (src/src/error.rs).  One record shape for every kind; the fields *)
(* a kind does not carry are empty.                                        *)
(***************************************************************************)
Err(kind, pos, expected, found, detail) ==
    [kind |-> kind, pos |-> pos, expected |-> expected, found |-> found,
     detail |-> detail]

NoError == Err("", 0, <<>>, <<>>, "")
Eof == Err("Eof", 0, <<>>, <<>>, "")
TrailingCharacters == Err("TrailingCharacters", 0, <<>>, <<>>, "")
ExpectedSign(pos) == Err("ExpectedSign", pos, <<>>, <<>>, "")
UnexpectedCR(pos) == Err("UnexpectedCR", pos, <<>>, <<>>, "")
UnexpectedSign(expected, found, pos) ==
    Err("UnexpectedSign", pos, expected, found, "")
BulkStringOverflow == Err("BulkStringOverflow", 0, <<>>, <<>>, "")
ParseIntError(detail) == Err("ParseIntError", 0, <<>>, <<>>, detail)
FromUtf8Error == Err("FromUtf8Error", 0, <<>>, <<>>, "")
UnexpectedType == Err("UnexpectedType", 0, <<>>, <<>>, "")

(***************************************************************************)
(* RESPType (src/src/lib.rs).  One record shape for the six variants.      *)
(***************************************************************************)
RESP(type, bytes, num, items) ==
    [type |-> type, bytes |-> bytes, num |-> num, items |-> items]

SimpleString(s) == RESP("SimpleString", s, Zero, <<>>)
Error(s) == RESP("Error", s, Zero, <<>>)
Integer(n) == RESP("Integer", <<>>, n, <<>>)
BulkString(b) == RESP("BulkString", b, Zero, <<>>)
Array(xs) == RESP("Array", <<>>, Zero, xs)
None == RESP("None", <<>>, Zero, <<>>)
\* no value: the () of a call that has not returned one
Unit == RESP("Unit", <<>>, Zero, <<>>)

(***************************************************************************)
(* The cursor: Deserializer { input, offset } (src/src/de.rs).  Every      *)
(* operation returns its outcome st ("ok", "err", or "panic" for a slice   *)
(* that is not on a character boundary), the cursor de it leaves, and the  *)
(* value or the error.                                                     *)
(***************************************************************************)
Deserializer(s, off) == [input |-> s, offset |-> off]

Ok(de, val) == [st |-> "ok", de |-> de, val |-> val, err |-> NoError]
Fail(de, err) == [st |-> "err", de |-> de, val |-> <<>>, err |-> err]
Panic(de) == [st |-> "panic", de |-> de, val |-> <<>>, err |-> NoError]
\* the ? operator: the failure of r, as the caller's own outcome
Raise(r) == [st |-> r.st, de |-> r.de, val |-> <<>>, err |-> r.err]

peek_char(de) ==
    IF de.input = <<>> THEN Fail(de, Eof) ELSE Ok(de, first_char(de.input))

\* a next_char that counts the character as one byte of offset
next_char_one(de) ==
    LET ch == peek_char(de)
    IN  IF ch.st # "ok" THEN Raise(ch)
        ELSE Ok(Deserializer(DropBytes(de.input, Len(ch.val)), de.offset + 1),
                ch.val)

next_char(de) ==
    LET ch == peek_char(de)
    IN  IF ch.st # "ok" THEN Raise(ch)
        ELSE Ok(Deserializer(DropBytes(de.input, Len(ch.val)),
                             de.offset + Len(ch.val)), ch.val)

\* a skip that leaves the offset where it was
skip_still(de, len) ==
    IF Len(de.input) < len THEN Fail(de, Eof)
    ELSE IF ~is_char_boundary(de.input, len) THEN Panic(de)
    ELSE Ok(Deserializer(DropBytes(de.input, len), de.offset),
            SubSeq(de.input, 1, len))

skip(de, len) ==
    IF Len(de.input) < len THEN Fail(de, Eof)
    ELSE IF ~is_char_boundary(de.input, len) THEN Panic(de)
    ELSE Ok(Deserializer(DropBytes(de.input, len), de.offset + len),
            SubSeq(de.input, 1, len))

\* a read_to_end that places the bare CR from the cursor, not from the start
read_to_end_rel(de) ==
    LET len == find(de.input, CRLF)
    IN  IF len = -1 THEN Fail(de, Eof)
        ELSE LET cr == find(SubSeq(de.input, 1, len), <<CR>>)
             IN  IF cr # -1 THEN Fail(de, UnexpectedCR(cr))
                 ELSE Ok(Deserializer(DropBytes(de.input, len + 2),
                                      de.offset + len + 2),
                         SubSeq(de.input, 1, len))

read_to_end(de) ==
    LET len == find(de.input, CRLF)
    IN  IF len = -1 THEN Fail(de, Eof)
        ELSE LET cr == find(SubSeq(de.input, 1, len), <<CR>>)
             IN  IF cr # -1 THEN Fail(de, UnexpectedCR(de.offset + cr))
                 ELSE LET s == skip(de, len)
                      IN  IF s.st # "ok" THEN Raise(s)
                          ELSE LET e == skip(s.de, 2)
                               IN  IF e.st # "ok" THEN Raise(e)
                                   ELSE Ok(e.de, s.val)

(***************************************************************************)
(* The typed sub-parsers.                                                  *)
(***************************************************************************)
\* a sub-parser that takes the character before it looks at it
parse_line_eager(de, sign) ==
    LET prefix == next_char(de)
    IN  IF prefix.st # "ok" THEN Raise(prefix)
        ELSE IF prefix.val # <<sign>>
        THEN Fail(prefix.de,
                  UnexpectedSign(<<sign>>, prefix.val, prefix.de.offset))
        ELSE read_to_end(prefix.de)

\* the shared shape of parse_simple_string and parse_error
parse_line(de, sign) ==
    LET prefix == peek_char(de)
    IN  IF prefix.st # "ok" THEN Raise(prefix)
        ELSE IF prefix.val # <<sign>>
        THEN Fail(de, UnexpectedSign(<<sign>>, prefix.val, de.offset))
        ELSE LET n == next_char(de)
             IN  IF n.st # "ok" THEN Raise(n) ELSE read_to_end(n.de)

parse_simple_string(de) == parse_line(de, "+")

parse_error(de) == parse_line(de, "-")

parse_int(de) ==
    LET str == parse_line(de, ":")
    IN  IF str.st # "ok" THEN str
        ELSE LET int == parse_i64(str.val)
             IN  IF ~int.ok THEN Fail(str.de, ParseIntError(int.detail))
                 ELSE Ok(str.de, int.num)

\* Option<&[u8]>
Some(bytes) == [some |-> TRUE, bytes |-> bytes]
Absent == [some |-> FALSE, bytes |-> <<>>]

parse_bytes(de) ==
    LET str == parse_line(de, "$")
    IN  IF str.st # "ok" THEN str
        ELSE LET len == parse_i32(str.val)
             IN  IF ~len.ok THEN Fail(str.de, ParseIntError(len.detail))
                 ELSE IF ToInt(len.num) > MAX_BULK_STRING_SIZE
                 THEN Fail(str.de, BulkStringOverflow)
                 ELSE IF ToInt(len.num) < 0 THEN Ok(str.de, Absent)
                 ELSE IF Len(str.de.input) < ToInt(len.num)
                 THEN Fail(str.de, Eof)
                 ELSE LET bulk_str == skip(str.de, ToInt(len.num))
                      IN  IF bulk_str.st # "ok" THEN Raise(bulk_str)
                          ELSE LET e == skip(bulk_str.de, 2)
                               IN  IF e.st # "ok" THEN Raise(e)
                                   ELSE Ok(e.de, Some(bulk_str.val))

\* A usize count made by `n as usize` from an i32 and then only decremented:
\* wrap counts the 2^w the cast adds to a negative n (w the width of usize),
\* taken counts the decrements, so the count is wrap * 2^w + n - taken
as_usize(n) == [wrap |-> IF n < 0 THEN 1 ELSE 0, n |-> n, taken |-> 0]

is_zero(cnt) == cnt.wrap = 0 /\ cnt.n = cnt.taken

decrement(cnt) == [cnt EXCEPT !.taken = @ + 1]

\* deserialize_seq up to its call of the visitor: the array header.  val is
\* the declared count; -1 is the null array
seq_header(de) ==
    LET sign == peek_char(de)
    IN  IF sign.st # "ok" THEN Raise(sign)
        ELSE IF sign.val # <<"*">>
        THEN Fail(de, UnexpectedSign(<<"*">>, sign.val, de.offset))
        ELSE LET s == skip(de, 1)
             IN  IF s.st # "ok" THEN Raise(s)
                 ELSE LET line == read_to_end(s.de)
                      IN  IF line.st # "ok" THEN Raise(line)
                          ELSE LET num == parse_i32(line.val)
                               IN  IF ~num.ok
                                   THEN Fail(line.de, ParseIntError(num.detail))
                                   ELSE Ok(line.de, ToInt(num.num))

(***************************************************************************)
(* deserialize_any with RESPVisitor: one frame, or the header of an array. *)
(* st "seq" is the call of visit_seq with an access of val elements; any   *)
(* other "ok" carries the RESPType the visitor built.                      *)
(***************************************************************************)
Tags == {"+", "-", ":", "$", "*"}

visit_str(r) == IF r.st # "ok" THEN r ELSE Ok(r.de, SimpleString(r.val))
visit_string(r) == IF r.st # "ok" THEN r ELSE Ok(r.de, Error(r.val))
visit_i64(r) == IF r.st # "ok" THEN r ELSE Ok(r.de, Integer(r.val))
visit_bytes(r) ==
    IF r.st # "ok" THEN r
    ELSE IF r.val.some THEN Ok(r.de, BulkString(r.val.bytes))
    ELSE Ok(r.de, None)

\* a deserialize_seq without the test for -1
deserialize_seq_counted(de) ==
    LET num == seq_header(de)
    IN  IF num.st # "ok" THEN num
        ELSE [st |-> "seq", de |-> num.de, val |-> as_usize(num.val),
              err |-> NoError]

deserialize_seq(de) ==
    LET num == seq_header(de)
    IN  IF num.st # "ok" THEN num
        ELSE IF num.val = -1 THEN Ok(num.de, None)
        ELSE [st |-> "seq", de |-> num.de, val |-> as_usize(num.val),
              err |-> NoError]

deserialize_any(de) ==
    LET sign == peek_char(de)
    IN  IF sign.st # "ok" THEN Raise(sign)
        ELSE IF sign.val = <<"+">> THEN visit_str(parse_simple_string(de))
        ELSE IF sign.val = <<"-">> THEN visit_string(parse_error(de))
        ELSE IF sign.val = <<":">> THEN visit_i64(parse_int(de))
        ELSE IF sign.val = <<"$">> THEN visit_bytes(parse_bytes(de))
        ELSE IF sign.val = <<"*">> THEN deserialize_seq(de)
        ELSE Fail(de, ExpectedSign(de.offset))

\* the typed methods of the Deserializer, for a visitor that builds what
\* RESPVisitor builds
deserialize_i64(de) == visit_i64(parse_int(de))
deserialize_str(de) == visit_str(parse_simple_string(de))
deserialize_string(de) == visit_string(parse_error(de))
deserialize_bytes(de) == visit_bytes(parse_bytes(de))

\* the method a type calls: "any" is RESPType, "seq" a Vec of the type that
\* follows it in the list
Methods == {"any", "i64", "str", "string", "bytes", "seq"}

deserialize(method, de) ==
    CASE method = "any" -> deserialize_any(de)
      [] method = "i64" -> deserialize_i64(de)
      [] method = "str" -> deserialize_str(de)
      [] method = "string" -> deserialize_string(de)
      [] method = "bytes" -> deserialize_bytes(de)
      [] method = "seq" -> deserialize_seq(de)

(***************************************************************************)
(* The encoder (src/src/ser.rs).  The writer is the Vec<u8> of to_string:  *)
(* the bytes written so far; writing to it cannot fail.                    *)
(***************************************************************************)
serialize_i64(writer, v) == writer \o <<":">> \o format_i64(v) \o CRLF

serialize_str(writer, v) == writer \o v \o CRLF

\* a serialize_bytes that does not end the payload with CRLF
serialize_bytes_open(writer, v) ==
    writer \o <<"$">> \o format_usize(Len(v)) \o CRLF \o v

serialize_bytes(writer, v) ==
    writer \o <<"$">> \o format_usize(Len(v)) \o CRLF \o v \o CRLF

serialize_none(writer) == writer \o <<"$", "-", "1">> \o CRLF

\* the len of serialize_seq is an Option<usize>: NoLen is its None
NoLen == -1

serialize_seq(writer, len) ==
    IF len = NoLen THEN writer \o <<"*", "-", "1">> \o CRLF
    ELSE writer \o <<"*">> \o format_usize(len) \o CRLF

\* impl Serialize for RESPType
RECURSIVE serialize(_, _)
RECURSIVE serialize_elements(_, _)
\* the elements written last to first
serialize_elements_rev(writer, arr) ==
    IF arr = <<>> THEN writer
    ELSE serialize(serialize_elements(writer, Tail(arr)), Head(arr))

serialize_elements(writer, arr) ==
    IF arr = <<>> THEN writer
    ELSE serialize_elements(serialize(writer, Head(arr)), Tail(arr))

serialize(writer, v) ==
    CASE v.type = "SimpleString" -> serialize_str(writer, <<"+">> \o v.bytes)
      [] v.type = "Integer" -> serialize_i64(writer, v.num)
      [] v.type = "Error" -> serialize_str(writer, <<"-">> \o v.bytes)
      [] v.type = "BulkString" -> serialize_bytes(writer, v.bytes)
      [] v.type = "Array" ->
            serialize_elements(serialize_seq(writer, Len(v.items)), v.items)
      [] v.type = "None" -> serialize_none(writer)

to_writer(v, writer) == serialize(writer, v)

\* to_string: the bytes as a String, or FromUtf8Error
to_string(v) ==
    LET buf == to_writer(v, <<>>)
    IN  IF is_utf8(buf) THEN [ok |-> TRUE, str |-> buf, err |-> NoError]
        ELSE [ok |-> FALSE, str |-> <<>>, err |-> FromUtf8Error]

(***************************************************************************)
(* The encoder driven by a caller's structure instead of a RESPType.  The  *)
(* structure is what its Serialize impl tells the Serializer: an i64, a    *)
(* str, bytes (serialize_bytes, as serde_bytes does), a char, a float, (), *)
(* an Option (None of a declared shape, or Some), a sequence whose length  *)
(* is known (a Vec), a sequence whose length is not (an iterator), a       *)
(* tuple, or a RESPType.  A method returns what it wrote and its Result.   *)
(***************************************************************************)
I64(n) == RESP("i64", <<>>, n, <<>>)
Str(s) == RESP("str", s, Zero, <<>>)
Bytes(b) == RESP("bytes", b, Zero, <<>>)
\* a char of one byte (v as u8 is then the byte itself)
Char(c) == RESP("char", <<c>>, Zero, <<>>)
F32 == RESP("f32", <<>>, Zero, <<>>)
F64 == RESP("f64", <<>>, Zero, <<>>)
UnitValue == RESP("()", <<>>, Zero, <<>>)
\* Option::None where the caller declared Option<bytes> ("bulk") or
\* Option<Vec<_>> ("array"); the Serializer is told serialize_none() alike
NoneOf(shape) == RESP("Option::None", <<shape>>, Zero, <<>>)
SomeOf(v) == RESP("Option::Some", <<>>, Zero, <<v>>)
Vec(xs) == RESP("Vec", <<>>, Zero, xs)
Iter(xs) == RESP("Iter", <<>>, Zero, xs)
Tuple(xs) == RESP("Tuple", <<>>, Zero, xs)

RESPTypes ==
    {"SimpleString", "Error", "Integer", "BulkString", "Array", "None"}

Wrote(writer) == [st |-> "ok", writer |-> writer, err |-> NoError]
Refused(writer, err) == [st |-> "err", writer |-> writer, err |-> err]

serialize_f32(writer) == Refused(writer, UnexpectedType)
serialize_f64(writer) == Refused(writer, UnexpectedType)

serialize_char(writer, v) == writer \o v

serialize_unit(writer) == serialize_none(writer)

serialize_tuple(writer, len) == serialize_seq(writer, len)

\* T::serialize for the caller's T
RECURSIVE serialize_value(_, _)
RECURSIVE serialize_element(_, _)
\* SerializeSeq / SerializeTuple: serialize_element for each, then end();
\* the ? operator leaves at the first element that fails
serialize_element(w, xs) ==
    IF xs = <<>> \/ w.st # "ok" THEN w
    ELSE serialize_element(serialize_value(w.writer, Head(xs)), Tail(xs))

serialize_value(writer, v) ==
    CASE v.type \in RESPTypes -> Wrote(serialize(writer, v))
      [] v.type = "i64" -> Wrote(serialize_i64(writer, v.num))
      [] v.type = "str" -> Wrote(serialize_str(writer, v.bytes))
      [] v.type = "bytes" -> Wrote(serialize_bytes(writer, v.bytes))
      [] v.type = "char" -> Wrote(serialize_char(writer, v.bytes))
      [] v.type = "f32" -> serialize_f32(writer)
      [] v.type = "f64" -> serialize_f64(writer)
      [] v.type = "()" -> Wrote(serialize_unit(writer))
      [] v.type = "Option::None" -> Wrote(serialize_none(writer))
      [] v.type = "Option::Some" -> serialize_value(writer, v.items[1])
      [] v.type = "Vec" ->
            serialize_element(Wrote(serialize_seq(writer, Len(v.items))),
                              v.items)
      [] v.type = "Iter" ->
            serialize_element(Wrote(serialize_seq(writer, NoLen)), v.items)
      [] v.type = "Tuple" ->
            serialize_element(Wrote(serialize_tuple(writer, Len(v.items))),
                              v.items)

\* to_writer::<T, W> for the caller's T and a Vec<u8>
to_writer_T(v, writer) == serialize_value(writer, v)

\* to_string::<T>: to_writer(value, &mut buf)?, then String::from_utf8(buf)?
to_string_T(v) ==
    LET w == to_writer_T(v, <<>>)
    IN  IF w.st # "ok" THEN [ok |-> FALSE, str |-> <<>>, err |-> w.err]
        ELSE IF is_utf8(w.writer)
        THEN [ok |-> TRUE, str |-> w.writer, err |-> NoError]
        ELSE [ok |-> FALSE, str |-> <<>>, err |-> FromUtf8Error]

(***************************************************************************)
(* The values and the inputs of the model.                                 *)
(***************************************************************************)
TextBytes == {"a", CR, LF, LEAD, CONT}

SeqsUpTo(S, n) == UNION {[1..k -> S] : k \in 0..n}

\* a Vec<u8> is any bytes; a String is UTF-8
ByteVecs == SeqsUpTo(TextBytes, MaxText)
Strings == {s \in ByteVecs : is_utf8(s)}

\* written digits, for the numerals of the inputs
Dec(ds) == [i \in 1..Len(ds) |-> Digits[ds[i] + 1]]

IntSamples ==
    {Zero, Num(FALSE, <<7>>), Num(TRUE, <<7>>), Num(FALSE, <<1, 0>>),
     Num(FALSE, I64_MAX), Num(TRUE, I64_MIN)}

Scalars ==
    {SimpleString(s) : s \in Strings} \cup {Error(s) : s \in Strings}
    \cup {BulkString(b) : b \in ByteVecs}
    \cup {Integer(n) : n \in IntSamples} \cup {None}

\* the scalars that arrays are built from
Elems ==
    {Integer(Num(FALSE, <<7>>)), SimpleString(<<"a">>),
     BulkString(<<LEAD, CONT>>), None}

\* Tree(leaves, n): the values of exactly n nodes over the given scalars;
\* Forest(leaves, k): the sequences of such values of k nodes in all
RECURSIVE Tree(_, _)
RECURSIVE Forest(_, _)
Tree(leaves, n) ==
    IF n = 1 THEN leaves \cup {Array(<<>>)}
    ELSE {Array(xs) : xs \in Forest(leaves, n - 1)}

Forest(leaves, k) ==
    IF k = 0 THEN {<<>>}
    ELSE UNION {{<<v>> \o f : v \in Tree(leaves, j),
                              f \in Forest(leaves, k - j)} : j \in 1..k}

Values == Scalars \cup UNION {Tree(Elems, n) : n \in 1..MaxNodes}

\* one byte of s replaced, removed or inserted
EditBytes ==
    {"+", "-", ":", "$", "*", CR, LF, "0", "1", "2", "a", LEAD, CONT}

Corrupt(s) ==
    {[s EXCEPT ![i] = b] : i \in 1..Len(s), b \in EditBytes}
    \cup {SubSeq(s, 1, i - 1) \o SubSeq(s, i + 1, Len(s)) : i \in 1..Len(s)}
    \cup {SubSeq(s, 1, i) \o <<b>> \o SubSeq(s, i + 1, Len(s)) :
            i \in 0..Len(s), b \in EditBytes}

SeedElems == {Integer(Num(FALSE, <<7>>)), BulkString(<<LEAD, CONT>>)}

Seeds == Elems \cup UNION {Tree(SeedElems, n) : n \in 1..MaxSeed}

Corrupted == UNION {Corrupt(to_string(v).str) : v \in Seeds}

\* a header line with a chosen numeral, and the bytes after it: every tail
\* after a small length, a short tail after the other numerals
Lengths ==
    {<<"-", "2">>, <<"-", "1">>, <<"-", "0">>, <<"0">>, <<"1">>, <<"2">>,
     <<"3">>, <<"+", "1">>, <<"0", "0", "2">>}

Numerals ==
    {<<>>, <<"-">>, <<"+">>, <<"a">>, <<"1", "a">>, <<"1", "-">>,
     Dec(<<1, 1, 4, 5, 1, 4>>),
     Dec(<<5, 3, 6, 8, 7, 0, 9, 1, 2>>), Dec(<<5, 3, 6, 8, 7, 0, 9, 1, 3>>),
     Dec(I32_MAX), Dec(I32_MIN), <<"-">> \o Dec(I32_MIN),
     <<"-">> \o Dec(<<2, 1, 4, 7, 4, 8, 3, 6, 4, 9>>),
     Dec(I64_MAX), Dec(I64_MIN), <<"-">> \o Dec(I64_MIN),
     <<"-">> \o Dec(<<9, 2, 2, 3, 3, 7, 2, 0, 3, 6, 8, 5, 4, 7, 7, 5, 8, 0, 9>>),
     Dec(<<9, 9, 9, 9, 9, 9, 9, 9, 9, 9, 9, 9, 9, 9, 9, 9, 9, 9, 9, 9>>)}

Tails == SeqsUpTo(TextBytes, MaxTail)
ShortTails == {<<>>, <<"a">>, <<"a", "a">>, CRLF}

Header(tag, n) == <<tag>> \o n \o CRLF

ShortCrafted ==
    {Header(tag, n) \o tail :
        tag \in {":", "$", "*"}, n \in Lengths \cup Numerals,
        tail \in ShortTails}

\* the same as the only element of an array
Wrapped == {Header("*", <<"1">>) \o s : s \in ShortCrafted}

Crafted ==
    {Header(tag, n) \o tail :
        tag \in {":", "$", "*"}, n \in Lengths, tail \in Tails}
    \cup ShortCrafted \cup Wrapped

Inputs == {s \in Corrupted \cup Crafted : is_utf8(s)}

\* the types T of from_str::<T> other than RESPType, and their inputs
Targets ==
    {<<"i64">>, <<"str">>, <<"string">>, <<"bytes">>, <<"seq", "any">>,
     <<"seq", "i64">>, <<"seq", "seq", "str">>}

TypedSeeds ==
    Elems \cup
    {Error(<<"a">>), Integer(Num(TRUE, <<7>>)), Array(<<>>),
     Array(<<Integer(Num(FALSE, <<7>>))>>),
     Array(<<Integer(Num(FALSE, <<7>>)), SimpleString(<<"a">>)>>),
     Array(<<Integer(Num(FALSE, <<7>>)), Integer(Zero)>>),
     Array(<<Array(<<SimpleString(<<"a">>)>>)>>),
     Array(<<Array(<<SimpleString(<<"a">>), Integer(Zero)>>)>>),
     Array(<<Array(<<>>), Integer(Zero)>>)}

TypedInputs ==
    {to_string(v).str : v \in TypedSeeds}
    \cup {<<>>, <<"a">>, <<LEAD, CONT, ":", "7">> \o CRLF,
          Header("*", <<"1">>) \o <<LEAD, CONT>> \o CRLF,
          Header("*", <<"2">>) \o Header(":", <<"7">>) \o <<"a">>,
          Header(":", <<"7">>) \o <<"a">>, Header("*", <<"-", "1">>)}

\* the caller's structures given to to_string
Given ==
    {I64(Num(TRUE, <<7>>)), Str(<<"a">>), Bytes(<<"a">>), Char("a"), F64,
     NoneOf("array")}

Provided ==
    Given
    \cup {Str(<<>>), Str(<<"+", "a">>), Str(<<LEAD, CONT>>), Bytes(<<>>),
          Bytes(<<LEAD>>), Char(":"), F32, UnitValue, NoneOf("bulk"),
          Integer(Num(FALSE, <<7>>))}
    \cup {SomeOf(v) : v \in Given}
    \cup UNION {{Vec(xs), Iter(xs), Tuple(xs)} :
                    xs \in SeqsUpTo(Given, MaxItems)}
    \cup UNION {{Vec(<<Vec(xs)>>), Tuple(<<I64(Zero), Tuple(xs)>>),
                 Vec(<<SomeOf(Vec(xs))>>)} :
                    xs \in SeqsUpTo(Given, 1)}

(***************************************************************************)
(* The state machine: to_string, then from_str step by step, then          *)
(* to_string of what was decoded.                                          *)
(***************************************************************************)
Result(st, v, err) == [st |-> st, value |-> v, err |-> err]
NoResult == Result("none", Unit, NoError)

Encoded(ok, str, err) == [ok |-> ok, str |-> str, err |-> err]
NotEncoded == Encoded(FALSE, <<>>, NoError)

Frame(remain_cnt, array) == [remain_cnt |-> remain_cnt, array |-> array]

\* before any call: nothing read, nothing written
Idle ==
    /\ input = <<>>
    /\ offset = 0
    /\ stack = <<>>
    /\ t = Unit
    /\ result = NoResult
    /\ sink = <<>>
    /\ again = NotEncoded

Init ==
    /\ \/ pc = "to_string" /\ value \in Values /\ text = <<>>
       \/ pc = "from_str" /\ value = Unit /\ text \in Inputs
    /\ given = Unit
    /\ target = <<"any">>
    /\ Idle

\* the method that T::deserialize calls for the frame about to be read
Method == IF Len(stack) < Len(target) THEN target[Len(stack) + 1] ELSE "any"

\* to_string(&value); its output is what from_str is given next
ToString ==
    /\ pc = "to_string"
    /\ sink' = to_writer(value, <<>>)
    /\ LET r == to_string(value)
       IN  IF r.ok
           THEN /\ text' = r.str
                /\ pc' = "from_str"
                /\ result' = result
           ELSE /\ text' = text
                /\ pc' = "done"
                /\ result' = Result("err", Unit, r.err)
    /\ UNCHANGED <<value, input, offset, stack, t, again, given, target>>

\* from_str: Deserializer::from_str(s), then T::deserialize(&mut de)
FromStr ==
    /\ pc = "from_str"
    /\ input' = text
    /\ offset' = 0
    /\ pc' = "value"
    /\ UNCHANGED <<value, text, stack, t, result, sink, again, given, target>>

\* a visit_seq that puts each element before those it has
Deliver_front(v, stk) ==
    IF stk = <<>>
    THEN /\ t' = v
         /\ stack' = stk
         /\ pc' = "end"
    ELSE /\ t' = t
         /\ stack' = [stk EXCEPT ![Len(stk)].array = <<v>> \o @]
         /\ pc' = "elem"

\* a value is returned to the caller of deserialize: to visit_seq of the
\* innermost array being read (array.push), or to from_str
Deliver(v, stk) ==
    IF stk = <<>>
    THEN /\ t' = v
         /\ stack' = stk
         /\ pc' = "end"
    ELSE /\ t' = t
         /\ stack' = [stk EXCEPT ![Len(stk)].array = Append(@, v)]
         /\ pc' = "elem"

\* the outcome r of a method of the Deserializer: the value it built is
\* returned, visit_seq starts on an array, or the error is from_str's
Visit(r) ==
    /\ input' = r.de.input
    /\ offset' = r.de.offset
    /\ CASE r.st = "ok" -> Deliver(r.val, stack) /\ result' = result
         [] r.st = "seq" ->
             /\ stack' = Append(stack, Frame(r.val, <<>>))
             /\ pc' = "elem"
             /\ UNCHANGED <<t, result>>
         [] OTHER ->
             /\ result' = Result(r.st, Unit, r.err)
             /\ pc' = "done"
             /\ UNCHANGED <<t, stack>>

\* RESPType::deserialize: deserialize_any(RESPVisitor), for one frame
DeserializeAny ==
    /\ pc = "value"
    /\ Method = "any"
    /\ Visit(deserialize_any(Deserializer(input, offset)))
    /\ UNCHANGED <<value, text, sink, again, given, target>>

\* one turn of visit_seq's loop: next_element_seed, then push or return
NextElement ==
    /\ pc = "elem"
    /\ LET top == stack[Len(stack)]
       IN  IF is_zero(top.remain_cnt)
           THEN Deliver(Array(top.array), SubSeq(stack, 1, Len(stack) - 1))
           ELSE /\ stack' = [stack EXCEPT
                                ![Len(stack)].remain_cnt = decrement(@)]
                /\ pc' = "value"
                /\ t' = t
    /\ UNCHANGED <<value, text, input, offset, result, sink, again, given,
                   target>>

\* a from_str that returns t whatever is left of the input
FromStrEnd_unchecked ==
    /\ pc = "end"
    /\ result' = Result("ok", t, NoError)
    /\ pc' = "done"
    /\ UNCHANGED <<value, text, input, offset, stack, t, sink, again, given,
                   target>>

\* from_str after T::deserialize returned t
FromStrEnd ==
    /\ pc = "end"
    /\ result' = IF input = <<>> THEN Result("ok", t, NoError)
                 ELSE Result("err", Unit, TrailingCharacters)
    /\ pc' = "done"
    /\ UNCHANGED <<value, text, input, offset, stack, t, sink, again, given,
                   target>>

\* to_string of the decoded value
ReEncode ==
    /\ pc = "done"
    /\ result.st = "ok"
    /\ sink' = to_writer(result.value, <<>>)
    /\ LET r == to_string(result.value)
       IN  again' = Encoded(r.ok, r.str, r.err)
    /\ pc' = "encoded"
    /\ UNCHANGED <<value, text, input, offset, stack, t, result, given,
                   target>>

\* T::deserialize for a T other than RESPType: one of the typed methods
DeserializeTyped ==
    /\ pc = "value"
    /\ Method # "any"
    /\ Visit(deserialize(Method, Deserializer(input, offset)))
    /\ UNCHANGED <<value, text, sink, again, given, target>>

\* to_string(&given) for a caller's structure; its output is what from_str
\* is given next
ToStringT ==
    /\ pc = "to_string_T"
    /\ sink' = to_writer_T(given, <<>>).writer
    /\ LET r == to_string_T(given)
       IN  IF r.ok
           THEN /\ text' = r.str
                /\ pc' = "from_str"
                /\ result' = result
           ELSE /\ text' = text
                /\ pc' = "done"
                /\ result' = Result("err", Unit, r.err)
    /\ UNCHANGED <<value, input, offset, stack, t, again, given, target>>

Next ==
    \/ ToString
    \/ FromStr
    \/ DeserializeAny
    \/ NextElement
    \/ FromStrEnd
    \/ ReEncode

Spec == Init /\ [][Next]_vars

\* the codec driven by a caller's structure: to_string::<T>, then
\* from_str::<RESPType> of what it wrote
InitEncode ==
    /\ pc = "to_string_T"
    /\ given \in Provided
    /\ value = Unit
    /\ text = <<>>
    /\ target = <<"any">>
    /\ Idle

NextEncode ==
    \/ ToStringT
    \/ FromStr
    \/ DeserializeAny
    \/ NextElement
    \/ FromStrEnd
    \/ ReEncode

SpecEncode == InitEncode /\ [][NextEncode]_vars

\* from_str::<T> for a T other than RESPType
InitTyped ==
    /\ pc = "from_str"
    /\ text \in TypedInputs
    /\ target \in Targets
    /\ value = Unit
    /\ given = Unit
    /\ Idle

NextTyped ==
    \/ FromStr
    \/ DeserializeTyped
    \/ DeserializeAny
    \/ NextElement
    \/ FromStrEnd

SpecTyped == InitTyped /\ [][NextTyped]_vars

(***************************************************************************)
(* C1.  Round trip.                                                        *)
(***************************************************************************)
RECURSIVE Clean(_)
\* no CR in the text of a SimpleString or Error, UTF-8 bytes in a BulkString
Clean(v) ==
    /\ v.type \in {"SimpleString", "Error"} => CR \notin Range(v.bytes)
    /\ v.type = "BulkString" => is_utf8(v.bytes)
    /\ \A i \in 1..Len(v.items) : Clean(v.items[i])

\* C1 as claimed: for every RESPType value v, from_str(to_string(v)) is
\* Ok(v).
C1_RoundTripAny ==
    (pc = "done" /\ value # Unit) => result = Result("ok", value, NoError)

\* C1 as amended: from_str(to_string(v)) is Ok(v) for every RESPType value
\* v whose SimpleString and Error texts hold no CR and whose BulkString
\* bytes are UTF-8.
C1_RoundTrip ==
    (pc = "done" /\ value # Unit /\ Clean(value))
        => result = Result("ok", value, NoError)

C1_Witness ==
    /\ pc = "done"
    /\ value.type = "Array"
    /\ Len(value.items) = 2
    /\ \E i \in 1..2 : value.items[i].type = "Array"
                        /\ value.items[i].items # <<>>
    /\ \E i \in 1..2 : value.items[i].type = "BulkString"
    /\ result = Result("ok", value, NoError)

(***************************************************************************)
(* C2.  Trailing characters.                                               *)
(***************************************************************************)
\* C2: from_str returns a value only when the whole input was consumed; a
\* complete top-level value followed by at least one more byte makes it
\* fail with TrailingCharacters.
C2_TrailingCharacters ==
    /\ (pc \in {"done", "encoded"} /\ result.st = "ok")
            => (input = <<>> /\ offset = Len(text) /\ result.value = t)
    /\ (pc = "done" /\ t # Unit /\ input # <<>>)
            => result = Result("err", Unit, TrailingCharacters)

C2_Witness ==
    /\ pc = "done"
    /\ t.type = "Array"
    /\ t.items # <<>>
    /\ input # <<>>
    /\ result.err.kind = "TrailingCharacters"

(***************************************************************************)
(* The wire grammar's reading of a header, for the claims below: the       *)
(* numeral between the tag and the first CRLF, and the number it denotes.  *)
(***************************************************************************)
HasHeader(s, tags) ==
    /\ s # <<>>
    /\ s[1] \in tags
    /\ find(s, CRLF) # -1
    /\ CR \notin Range(SubSeq(s, 2, find(s, CRLF)))

HeaderNumeral(s) == SubSeq(s, 2, find(s, CRLF))

AfterHeader(s) == DropBytes(s, find(s, CRLF) + 2)

Unsigned(n) == IF n # <<>> /\ n[1] \in {"+", "-"} THEN Tail(n) ELSE n

\* an optional sign and at least one decimal digit
IsDecimal(n) ==
    /\ Unsigned(n) # <<>>
    /\ \A i \in 1..Len(Unsigned(n)) : Unsigned(n)[i] \in Range(Digits)

\* the magnitude a decimal numeral denotes, without leading zeros
Magnitude(n) ==
    LET ds == Unsigned(n)
        nz == {i \in 1..Len(ds) : ds[i] # "0"}
    IN  IF nz = {} THEN <<0>>
        ELSE [i \in 1..(Len(ds) - Min(nz) + 1) |->
                CHOOSE d \in 0..9 : Digits[d + 1] = ds[Min(nz) + i - 1]]

IsNegative(n) == n[1] = "-" /\ Magnitude(n) # <<0>>

(***************************************************************************)
(* C3.  The declared length of a bulk string.                              *)
(***************************************************************************)
\* C3: a bulk-string frame decodes only if exactly the declared number of
\* payload bytes stands before the CRLF terminator: a top-level input that
\* decodes to BulkString(b) is a header line, then b, then CRLF.
C3_BulkLengthExact ==
    (pc = "done" /\ result.st = "ok" /\ result.value.type = "BulkString")
        => text = SubSeq(text, 1, find(text, CRLF)) \o CRLF
                    \o result.value.bytes \o CRLF

(***************************************************************************)
(* C4.  Negative and malformed lengths.                                    *)
(***************************************************************************)
\* C4: a `$` or `*` header whose length is a negative number other than -1,
\* or is no decimal integer, never yields a value: the decode fails.
C4_OnlyMinusOne ==
    (/\ pc = "done"
     /\ HasHeader(text, {"$", "*"})
     /\ \/ ~IsDecimal(HeaderNumeral(text))
        \/ /\ IsNegative(HeaderNumeral(text))
           /\ Magnitude(HeaderNumeral(text)) # <<1>>)
        => result.st = "err"

(***************************************************************************)
(* C5.  The maximum bulk-string length.                                    *)
(***************************************************************************)
\* C5: a bulk-string header that declares more than 512 * 1024 * 1024 bytes
\* is rejected with BulkStringOverflow, the cursor standing just after the
\* header line.
C5_BulkStringOverflow ==
    (/\ pc = "done"
     /\ HasHeader(text, {"$"})
     /\ IsDecimal(HeaderNumeral(text))
     /\ ~IsNegative(HeaderNumeral(text))
     /\ MagGT(Magnitude(HeaderNumeral(text)), <<5, 3, 6, 8, 7, 0, 9, 1, 2>>))
        => /\ result = Result("err", Unit, BulkStringOverflow)
           /\ input = AfterHeader(text)
           /\ offset = Len(text) - Len(AfterHeader(text))

(***************************************************************************)
(* C6.  A bare CR in a line.                                               *)
(***************************************************************************)
\* the places (from 1) of the CRLFs of a line, and of its CRs that no LF
\* follows
CRLFsOf(line) ==
    {i \in 1..(Len(line) - 1) : line[i] = CR /\ line[i + 1] = LF}

BareCRsOf(line) ==
    {i \in 1..Len(line) :
        line[i] = CR /\ (i = Len(line) \/ line[i + 1] # LF)}

\* the remaining input s starts with a tag, and the line after the tag
\* holds a bare CR before its terminating CRLF
HasBareCR(s) ==
    /\ s # <<>>
    /\ s[1] \in Tags
    /\ CRLFsOf(Tail(s)) # {}
    /\ \E i \in BareCRsOf(Tail(s)) : i < Min(CRLFsOf(Tail(s)))

\* the byte offset, in the whole input whole, of the first bare CR of the
\* line at the start of its suffix s
BareCROffset(whole, s) == (Len(whole) - Len(s)) + Min(BareCRsOf(Tail(s)))

\* C6: when the line of the frame about to be read holds a bare CR before
\* its terminating CRLF, the decode fails with UnexpectedCR(p), p the byte
\* offset of the first such CR from the start of the original input.
C6_UnexpectedCR ==
    [][(pc = "value" /\ HasBareCR(input))
        => (/\ pc' = "done"
            /\ result' = Result("err", Unit,
                                UnexpectedCR(BareCROffset(text, input))))]_vars

C6_Witness ==
    /\ pc = "done"
    /\ result.err.kind = "UnexpectedCR"
    /\ stack # <<>>
    /\ stack[1].array # <<>>
    /\ text[result.err.pos + 1] = CR
    /\ result.err.pos > offset

(***************************************************************************)
(* C7.  No tag where a frame is expected.                                  *)
(***************************************************************************)
\* C7: when a frame is expected, at top level or as an element of an array,
\* and the next character is none of + - : $ *, the decode fails with
\* ExpectedSign(p), p the number of bytes consumed before that character.
C7_ExpectedSign ==
    [][(pc = "value" /\ input # <<>> /\ input[1] \notin Tags)
        => (/\ pc' = "done"
            /\ result' = Result("err", Unit,
                                ExpectedSign(Len(text) - Len(input))))]_vars

C7_Witness ==
    /\ pc = "done"
    /\ result.err.kind = "ExpectedSign"
    /\ Len(stack) = 2
    /\ stack[1].array # <<>>
    /\ result.err.pos > 0
    /\ text[result.err.pos + 1] \notin Tags

(***************************************************************************)
(* C8.  The null frames.                                                   *)
(***************************************************************************)
NullBulk == <<"$", "-", "1">> \o CRLF
NullArray == <<"*", "-", "1">> \o CRLF

StartsWith(s, prefix) ==
    Len(s) >= Len(prefix) /\ SubSeq(s, 1, Len(prefix)) = prefix

\* C8: `$-1\r\n` and `*-1\r\n` both decode to None; reading either, as the
\* whole input or as an element, consumes the header line and nothing
\* more, and starts no array.
C8_Null ==
    /\ [](pc = "done" /\ text \in {NullBulk, NullArray}
            => result = Result("ok", None, NoError))
    /\ [][(pc = "value" /\ (\/ StartsWith(input, NullBulk)
                            \/ StartsWith(input, NullArray)))
            => (/\ input' = DropBytes(input, 5)
                /\ offset' = offset + 5
                /\ Len(stack') = Len(stack)
                /\ IF stack = <<>>
                   THEN pc' = "end" /\ t' = None
                   ELSE /\ pc' = "elem"
                        /\ stack'[Len(stack)].array
                            = Append(stack[Len(stack)].array, None))]_vars

C8_Witness ==
    /\ pc = "done"
    /\ text = Header("*", <<"1">>) \o NullArray
    /\ result = Result("ok", Array(<<None>>), NoError)
    /\ offset = 9

(***************************************************************************)
(* C9.  Integer frames.                                                    *)
(***************************************************************************)
InI64(n) ==
    ~MagGT(Magnitude(n), IF IsNegative(n) THEN I64_MIN ELSE I64_MAX)

\* C9: an input `:<text>\r\n` decodes to Integer of the value <text>
\* denotes when <text> is a decimal numeral, optionally signed, in the
\* signed 64-bit range, and fails with ParseIntError otherwise.
C9_IntegerFrame ==
    /\ (pc = "done" /\ HasHeader(text, {":"}) /\ AfterHeader(text) = <<>>)
        => IF IsDecimal(HeaderNumeral(text)) /\ InI64(HeaderNumeral(text))
           THEN result = Result("ok",
                    Integer(Num(IsNegative(HeaderNumeral(text)),
                                Magnitude(HeaderNumeral(text)))), NoError)
           ELSE result.st = "err" /\ result.err.kind = "ParseIntError"
    /\ (pc = "done" /\ text = <<":", "1", "1", "4", "5", "1", "4">> \o CRLF)
        => result.value = Integer(Num(FALSE, <<1, 1, 4, 5, 1, 4>>))

C9_Witness ==
    /\ pc = "done"
    /\ text = <<":", "-">> \o Dec(I64_MIN) \o CRLF
    /\ result.st = "ok"
    /\ result.value.num = Num(TRUE, I64_MIN)

(***************************************************************************)
(* C10.  The frame of each variant.                                        *)
(***************************************************************************)
RECURSIVE DecimalOf(_)
DecimalOf(n) ==
    IF n < 10 THEN <<Digits[n + 1]>>
    ELSE DecimalOf(n \div 10) \o <<Digits[(n % 10) + 1]>>

RECURSIVE FrameOf(_)
RECURSIVE FramesOf(_)
FramesOf(xs) == IF xs = <<>> THEN <<>> ELSE FrameOf(Head(xs)) \o FramesOf(Tail(xs))

\* the frame the claim gives for each of the five variants that carry data
FrameOf(v) ==
    CASE v.type = "SimpleString" -> <<"+">> \o v.bytes \o CRLF
      [] v.type = "Error" -> <<"-">> \o v.bytes \o CRLF
      [] v.type = "Integer" ->
            <<":">> \o (IF v.num.neg THEN <<"-">> ELSE <<>>)
                \o Dec(v.num.mag) \o CRLF
      [] v.type = "BulkString" ->
            <<"$">> \o DecimalOf(Len(v.bytes)) \o CRLF \o v.bytes \o CRLF
      [] v.type = "Array" ->
            <<"*">> \o DecimalOf(Len(v.items)) \o CRLF \o FramesOf(v.items)

RECURSIVE NoNone(_)
NoNone(v) ==
    /\ v.type \notin {"None", "Unit"}
    /\ \A i \in 1..Len(v.items) : NoNone(v.items[i])

\* an input that is one well-formed simple string, error or integer frame
WellFormedScalar(s) ==
    \/ /\ HasHeader(s, {"+", "-"})
       /\ AfterHeader(s) = <<>>
    \/ /\ HasHeader(s, {":"})
       /\ AfterHeader(s) = <<>>
       /\ IsDecimal(HeaderNumeral(s))
       /\ InI64(HeaderNumeral(s))

\* what to_writer wrote is the frame of the value it was given
WritesFrame ==
    /\ (pc \in {"from_str", "value", "elem", "end", "done"} /\ NoNone(value))
            => sink = FrameOf(value)
    /\ (pc = "encoded" /\ NoNone(result.value))
            => sink = FrameOf(result.value)

\* C10 as claimed: encoding writes the frame of the variant, and so
\* re-encoding the value decoded from a well-formed input gives that input
\* back.
C10_ReencodeAny ==
    /\ WritesFrame
    /\ (pc = "encoded" /\ WellFormedScalar(text))
            => again = Encoded(TRUE, text, NoError)

\* C10 as amended: encoding writes the frame of the variant, and so
\* re-encoding the value decoded from the encoder's own output gives that
\* output back.
C10_Frames ==
    /\ WritesFrame
    /\ (pc = "encoded" /\ value # Unit)
            => again = Encoded(TRUE, text, NoError)

C10_Witness ==
    /\ pc = "encoded"
    /\ value = Array(<<Integer(Num(FALSE, <<7>>)), SimpleString(<<"a">>),
                       BulkString(<<LEAD, CONT>>)>>)
    /\ text = <<"*", "3", CR, LF, ":", "7", CR, LF, "+", "a", CR, LF,
                "$", "2", CR, LF, LEAD, CONT, CR, LF>>
    /\ again.str = text

(***************************************************************************)
(* C11.  The two null frames of the encoder.                               *)
(***************************************************************************)
\* C11: the encoder writes an absent bulk string as `$-1\r\n` and an absent
\* array as `*-1\r\n`; a null that stands for an array is never written as
\* `$-1\r\n`.
C11_NullFrames ==
    (pc = "from_str" /\ given.type = "Option::None")
        => sink = (IF given.bytes = <<"array">> THEN NullArray ELSE NullBulk)

(***************************************************************************)
(* C12.  Floating-point values.                                            *)
(***************************************************************************)
RECURSIVE HasFloat(_)
HasFloat(v) ==
    \/ v.type \in {"f32", "f64"}
    \/ \E i \in 1..Len(v.items) : HasFloat(v.items[i])

\* C12: an encode call given a floating-point value, as the top-level value
\* or as an element of a sequence or tuple, fails with UnexpectedType and
\* has written no byte to the sink when it returns.
C12_FloatRejected ==
    (pc # "to_string_T" /\ HasFloat(given))
        => /\ pc = "done"
           /\ result = Result("err", Unit, UnexpectedType)
           /\ sink = <<>>

(***************************************************************************)
(* C13.  The frames of a caller's structure.                               *)
(***************************************************************************)
\* structures made of strings, byte buffers, sequences, tuples and absent
\* options only
RECURSIVE Shaped(_)
Shaped(v) ==
    /\ v.type \in {"str", "bytes", "Vec", "Iter", "Tuple", "Option::None"}
    /\ \A i \in 1..Len(v.items) : Shaped(v.items[i])

\* the RESPType of the frame the claim gives such a structure
RECURSIVE FrameValue(_)
FrameValue(v) ==
    CASE v.type \in {"str", "bytes"} -> BulkString(v.bytes)
      [] v.type \in {"Vec", "Iter", "Tuple"} ->
            Array([i \in 1..Len(v.items) |-> FrameValue(v.items[i])])
      [] v.type = "Option::None" -> None

\* C13: the bytes written for a string or byte buffer are a BulkString
\* frame, for a sequence or tuple an Array frame, for an absent option a
\* null frame, and the decoder accepts them as one complete frame (the
\* bytes being UTF-8, as from_str takes a str).
C13_GenericFrames ==
    (pc = "done" /\ given # Unit /\ Shaped(given) /\ is_utf8(sink))
        => result = Result("ok", FrameValue(given), NoError)

(***************************************************************************)
(* C14.  A tag other than the one a typed sub-parser expects.              *)
(***************************************************************************)
\* the tag of the frame each typed method reads
SignOf(method) ==
    CASE method = "i64" -> ":"
      [] method = "str" -> "+"
      [] method = "string" -> "-"
      [] method = "bytes" -> "$"
      [] method = "seq" -> "*"

\* the character at the start of s: two bytes when the first is a lead byte
CharAt(s) == IF s[1] = LEAD THEN <<s[1], s[2]>> ELSE <<s[1]>>

\* C14: when a typed sub-parser is called and the next character is not its
\* tag, the decode fails with UnexpectedSign{expected, found, pos}: expected
\* the sub-parser's tag, found the character at the cursor, pos its byte
\* offset in the original input; the failing call consumes nothing.
C14_UnexpectedSign ==
    [][(pc = "value" /\ Method # "any" /\ input # <<>>
            /\ CharAt(input) # <<SignOf(Method)>>)
        => (/\ pc' = "done"
            /\ result' = Result("err", Unit,
                    UnexpectedSign(<<SignOf(Method)>>, CharAt(input),
                                   Len(text) - Len(input)))
            /\ input' = input
            /\ offset' = offset)]_vars

C14_Witness ==
    /\ pc = "done"
    /\ target = <<"seq", "i64">>
    /\ stack # <<>>
    /\ stack[1].array = <<Integer(Num(FALSE, <<7>>))>>
    /\ result = Result("err", Unit, UnexpectedSign(<<":">>, <<"+">>, 8))
    /\ offset = 8

(***************************************************************************)
(* C15.  The elements of an array.                                         *)
(***************************************************************************)
IsPrefix(a, b) == Len(a) <= Len(b) /\ SubSeq(b, 1, Len(a)) = a

\* the element parses an array being read has begun, and those it waits
\* for: the arrays below the innermost wait for the one above them, the
\* innermost waits while a frame is being read
Begun(i) == stack[i].remain_cnt.taken
Pending(i) == IF i < Len(stack) \/ pc \in {"value", "done"} THEN 1 ELSE 0

\* a count n >= 0 was declared: `n as usize` is n
Counted(i) == stack[i].remain_cnt.wrap = 0

\* C15: an array header `*<n>\r\n`, n >= 0, is followed by at most n element
\* parses, one after another; when all n succeed the result is the Array of
\* exactly these n elements in the order of the input (the empty Array for
\* n = 0, not None); when one fails, with Eof when the input ends before
\* the n-th element, the whole decode fails and no partial array is
\* returned.
C15_ArrayElements ==
    /\ [](\A i \in 1..Len(stack) :
            /\ Len(stack[i].array) + Pending(i) = Begun(i)
            /\ Counted(i) => Begun(i) <= stack[i].remain_cnt.n)
    /\ []((/\ pc = "done"
            /\ result.st = "ok"
            /\ HasHeader(text, {"*"})
            /\ IsDecimal(HeaderNumeral(text))
            /\ ~IsNegative(HeaderNumeral(text)))
                => /\ result.value.type = "Array"
                   /\ NatMag(Len(result.value.items))
                        = Magnitude(HeaderNumeral(text))
                   /\ stack = <<>>)
    /\ []((pc = "done"
            /\ text = <<"*", "2", CR, LF, ":", "7", CR, LF, "+", "a", CR, LF>>)
                => result = Result("ok",
                                Array(<<Integer(Num(FALSE, <<7>>)),
                                        SimpleString(<<"a">>)>>), NoError))
    /\ []((pc = "done" /\ result.st # "ok")
                => result.value = Unit)
    /\ [][(pc = "elem" /\ pc' = "elem")
            => (/\ Len(stack') = Len(stack) - 1
                /\ Begun(Len(stack)) = stack[Len(stack)].remain_cnt.n
                /\ stack'[Len(stack')].array
                    = Append(stack[Len(stack')].array,
                             Array(stack[Len(stack)].array)))]_vars
    /\ [][(pc = "value" /\ stack # <<>>)
            => (/\ \A i \in 1..Len(stack) :
                        IsPrefix(stack[i].array, stack'[i].array)
                /\ input = <<>> => (/\ pc' = "done"
                                    /\ result' = Result("err", Unit, Eof))
                /\ pc' \in {"elem", "value", "done"}
                /\ pc' = "done" => (result'.st # "ok" /\ stack' = stack))]_vars

C15_Witness ==
    /\ pc = "done"
    /\ result = Result("err", Unit, Eof)
    /\ input = <<>>
    /\ Len(stack) = 2
    /\ Counted(2)
    /\ stack[2].remain_cnt.n = 2
    /\ Len(stack[2].array) = 1

(***************************************************************************)
(* C16.  The cursor.                                                       *)
(***************************************************************************)
\* de is the original input with its first de.offset bytes consumed
Consumed(de) ==
    /\ de.offset + Len(de.input) = Len(text)
    /\ de.input = DropBytes(text, de.offset)

\* the cursor with k bytes of the original input consumed
CursorAt(k) == Deserializer(DropBytes(text, k), k)

\* the outcome r of a cursor operation on de: the cursor it leaves is
\* still such a cursor, not before de, and is de itself when it failed
Forward(de, r) ==
    /\ Consumed(r.de)
    /\ r.de.offset >= de.offset
    /\ r.st # "ok" => r.de = de

\* C16: during a decode the remaining input is a suffix of the original
\* input and offset + its length is the length of the original; the offset
\* never decreases; a peek leaves the cursor unchanged, and so does a
\* next_char, skip or read_to_end that fails.
C16_Cursor ==
    /\ [](pc \in {"value", "elem", "end", "done", "encoded"}
            => Consumed(Deserializer(input, offset)))
    /\ [][offset' >= offset]_vars
    /\ [](pc = "value" =>
            \A k \in offset..Len(text) :
                is_char_boundary(text, k) =>
                    /\ peek_char(CursorAt(k)).de = CursorAt(k)
                    /\ Forward(CursorAt(k), next_char(CursorAt(k)))
                    /\ Forward(CursorAt(k), read_to_end(CursorAt(k)))
                    /\ \A len \in 0..(Len(text) - k + 1) :
                            Forward(CursorAt(k), skip(CursorAt(k), len)))

C16_Witness ==
    /\ pc = "done"
    /\ result.err.kind = "UnexpectedCR"
    /\ LEAD \in Range(SubSeq(text, 1, offset))
    /\ input # <<>>
    /\ Consumed(Deserializer(input, offset))

=============================================================================
